---- MODULE Spec2Model ----
(***************************************************************************)
(* A model of the LLM gateway of src/mesh_server/llm-proxy.py: the         *)
(* fixed-window rate limiter, the JWT gate, the /llm handler with its      *)
(* credential resolution and provider adapter, and the service-token       *)
(* helpers.                                                                *)
(*                                                                         *)
(* Specifications:                                                         *)
(*   SpecRL    rate_limit called sequentially, with a clock                *)
(*   SpecBurst SpecRL for one identifier, with an observer counting the    *)
(*             admissions inside one interval of window_seconds            *)
(*   SpecConc  rate_limit run by several threads, one bytecode-level step  *)
(*             at a time                                                   *)
(*   Spec      the gateway handling one request on /llm, /execute or a     *)
(*             passthrough route, for every startup configuration          *)
(*   SpecSandbox  one request on /execute of the gateway or on /execute of *)
(*             src/scripts/local-llm-proxy copy.py                         *)
(*   SpecExec  one /execute call of the gateway, step by step: up to       *)
(*             subprocess.run, the driver running against the 10-second    *)
(*             deadline, and the handler's return                          *)
(*   SpecProxy the router and the passthrough routes handling one request  *)
(*             of any method                                               *)
(*   SpecQuota one caller's /llm requests one after another, with an       *)
(*             observer counting those the gateway answered 400            *)
(*   SpecHdr   get_auth_headers called for every inbound header            *)
(*   SpecWrapper  the wrapper script binding an input to the parameters    *)
(*             of the submitted function                                   *)
(*   SpecAdapter  proxy_llm_request called for every provider and type     *)
(***************************************************************************)
EXTENDS Integers, Sequences, FiniteSets, TLC

VARIABLES
    now,             \* time.time(), in seconds
    rate_limit_map,  \* the module-level dict: identifier -> {count, last_reset}
    last,            \* the last rate_limit call: its identifier and its result
    watch,           \* observer: an interval's start and the admissions inside it
    cmap,            \* SpecConc: the object rate_limit_map holds for the identifier
    cobj,            \* SpecConc: the entry objects, named by the thread that made them
    thr,             \* SpecConc: each thread's position and locals inside rate_limit
    cstat,           \* SpecConc: of the current window's calls, how many started, wrote the count, were admitted
    cfg,             \* the module globals set by __main__: ENABLE_AUTH, JWT_SECRET, supabase_client
    req,             \* the HTTP request last handled
    resp,            \* the response returned for it
    eff,             \* what handling it did: handler entered, identity, key-store lookups, outbound call
    out,             \* SpecHdr: the last get_auth_headers call and the headers it returned
    adp,             \* SpecAdapter: the last proxy_llm_request call and what it did
    box,             \* SpecExec: the /execute call in progress and its driver process
    wrp,             \* SpecWrapper: the wrapper's call of the submitted function
    quota            \* SpecQuota: observer: the calls of the current window answered 400

vars == <<now, rate_limit_map, last, watch, cmap, cobj, thr, cstat,
          cfg, req, resp, eff, out, adp, box, wrp, quota>>

concVars == <<cmap, cobj, thr, cstat>>

httpVars == <<cfg, req, resp, eff>>

---------------------------------------------------------------------------
(* Program constants                                                       *)

RATE_LIMIT == 60

window_seconds == 60

\* subprocess.run(..., timeout=10) in execute
SANDBOX_TIMEOUT == 10

(* Bounds of the model                                                     *)

\* the clock stops advancing here
MaxTime == 61

\* the longest a driver process runs before it ends by itself, in seconds
MaxDuration == 12

\* rate_limit is not called for an identifier whose count has reached this, until
\* its window has passed
MaxCount == 62

\* SpecBurst runs the clock this far
MaxBurstTime == 120

\* the clock advances by one of these
TickSteps == {59, 60, 61}

Identifiers == {"u1", "ip1"}

None == "None"

---------------------------------------------------------------------------
(* rate_limit (llm-proxy.py 351-375)                                       *)

WindowPassedAtBoundary(t, entry) == t - entry.last_reset >= window_seconds

\* line 366: the window has passed
WindowPassed(t, entry) == t - entry.last_reset > window_seconds

WithinLimitStrict(entry) == entry.count < RATE_LIMIT

WithinLimitLoose(entry) == entry.count <= RATE_LIMIT + 1

\* line 375: the returned comparison
WithinLimit(entry) == entry.count <= RATE_LIMIT

\* rate_limit dropping the other identifiers' entries when it starts a window
rate_limit_update_pruning(map, identifier, t) ==
    IF identifier \notin DOMAIN map
    THEN map @@ (identifier :> [count |-> 1, last_reset |-> t])
    ELSE IF WindowPassed(t, map[identifier])
         THEN (identifier :> [count |-> 1, last_reset |-> t])
         ELSE [map EXCEPT ![identifier].count = @ + 1]

\* rate_limit starting the window again at every rejected call
rate_limit_update_extending(map, identifier, t) ==
    IF identifier \notin DOMAIN map
    THEN map @@ (identifier :> [count |-> 1, last_reset |-> t])
    ELSE IF WindowPassed(t, map[identifier])
         THEN [map EXCEPT ![identifier] = [count |-> 1, last_reset |-> t]]
         ELSE IF map[identifier].count + 1 > RATE_LIMIT
         THEN [map EXCEPT ![identifier] = [count |-> @.count + 1, last_reset |-> t]]
         ELSE [map EXCEPT ![identifier].count = @ + 1]

\* lines 359-372: the map after rate_limit(identifier) at time t
rate_limit_update(map, identifier, t) ==
    IF identifier \notin DOMAIN map
    THEN map @@ (identifier :> [count |-> 1, last_reset |-> t])
    ELSE IF WindowPassed(t, map[identifier])
         THEN [map EXCEPT ![identifier] = [count |-> 1, last_reset |-> t]]
         ELSE [map EXCEPT ![identifier].count = @ + 1]

\* lines 359-375: what rate_limit(identifier) returns at time t
rate_limit(map, identifier, t) ==
    IF identifier \notin DOMAIN map
    THEN TRUE
    ELSE WithinLimit(rate_limit_update(map, identifier, t)[identifier])

\* the observed interval [start, start + window_seconds] holds time t
InWatch(t) == watch.on /\ watch.start <= t /\ t <= watch.start + window_seconds

\* which branch of rate_limit a call takes (lines 359, 366, 369)
Branch(map, identifier, t) ==
    IF identifier \notin DOMAIN map THEN "new"
    ELSE IF WindowPassed(t, map[identifier]) THEN "reset" ELSE "incr"

NoEntry == [count |-> 0, last_reset |-> 0]

\* the observer counts a call made inside its interval: before or after the first
\* window start that falls inside the interval, and whether it was admitted
Observe(map, identifier, t) ==
    IF ~InWatch(t) THEN watch
    ELSE LET opened == Branch(map, identifier, t) # "incr" \/ watch.post > 0
             ok == rate_limit(map, identifier, t)
         IN [watch EXCEPT !.pre = IF opened THEN @ ELSE @ + 1,
                          !.post = IF opened THEN @ + 1 ELSE @,
                          !.admitted = IF ok THEN @ + 1 ELSE @]

\* the record of one rate_limit call: its result, its branch, the entry it found
LastCall(map, identifier, t) ==
    [id |-> identifier,
     admitted |-> rate_limit(map, identifier, t),
     branch |-> Branch(map, identifier, t),
     prev |-> IF identifier \in DOMAIN map THEN map[identifier] ELSE NoEntry,
     at |-> t]

ConcIdle ==
    /\ cmap = None
    /\ cobj = <<>>
    /\ thr = <<>>
    /\ cstat = [started |-> 0, admitted |-> 0, writes |-> 0]

\* one call of rate_limit, as the /llm handler makes it (line 898)
RateLimitCall(identifier) ==
    /\ identifier \in DOMAIN rate_limit_map =>
          \/ rate_limit_map[identifier].count < MaxCount
          \/ WindowPassed(now, rate_limit_map[identifier])
    /\ rate_limit_map' = rate_limit_update(rate_limit_map, identifier, now)
    /\ last' = LastCall(rate_limit_map, identifier, now)
    /\ watch' = Observe(rate_limit_map, identifier, now)
    /\ UNCHANGED <<now, concVars, httpVars, out, adp, box, wrp, quota>>

\* time passes between two calls
Tick(limit) ==
    /\ \E d \in TickSteps :
          /\ now + d <= limit
          /\ now' = now + d
    /\ UNCHANGED <<rate_limit_map, last, watch, concVars, httpVars, out, adp, box, wrp, quota>>

---------------------------------------------------------------------------
(* rate_limit run by several request threads (Flask serves each request on *)
(* its own thread; nothing locks rate_limit_map). Each action is one step  *)
(* of lines 356-375 that another thread can precede or follow. The entry   *)
(* objects are named by the thread that made them, "old" being one that    *)
(* was in the map before; `entry` is a reference, as in the code.          *)

Threads == {"t1", "t2"}

\* no thread starts a call once this many have been started
MaxConcCalls == 5

Idle == [pc |-> "idle", now |-> 0, entry |-> None, tmp |-> 0]

Started == cstat.started

\* lines 356, 359: read the clock and test `identifier not in rate_limit_map`
CStart(t) ==
    /\ thr[t].pc = "idle"
    /\ Started < MaxConcCalls
    /\ thr' = [thr EXCEPT ![t] = [pc |-> IF cmap = None THEN "create" ELSE "load",
                                  now |-> now, entry |-> None, tmp |-> 0]]
    /\ cstat' = [cstat EXCEPT !.started = @ + 1]
    /\ UNCHANGED <<now, rate_limit_map, last, watch, cmap, cobj, httpVars, out, adp, box, wrp, quota>>

\* lines 360-361: store a new entry, return True
CCreate(t) ==
    /\ thr[t].pc = "create"
    /\ cobj' = [cobj EXCEPT ![t] = [count |-> 1, last_reset |-> thr[t].now]]
    /\ cmap' = t
    /\ thr' = [thr EXCEPT ![t] = Idle]
    /\ cstat' = [cstat EXCEPT !.admitted = @ + 1, !.writes = @ + 1]
    /\ UNCHANGED <<now, rate_limit_map, last, watch, httpVars, out, adp, box, wrp, quota>>

\* line 363: entry = rate_limit_map[identifier]
CLoad(t) ==
    /\ thr[t].pc = "load"
    /\ thr' = [thr EXCEPT ![t].entry = cmap, ![t].pc = "window"]
    /\ UNCHANGED <<now, rate_limit_map, last, watch, cmap, cobj, cstat, httpVars, out, adp, box, wrp, quota>>

\* line 366: the window test
CWindow(t) ==
    /\ thr[t].pc = "window"
    /\ thr' = [thr EXCEPT ![t].pc = IF WindowPassed(thr[t].now, cobj[thr[t].entry])
                                    THEN "reset_count" ELSE "read_count"]
    /\ UNCHANGED <<now, rate_limit_map, last, watch, cmap, cobj, cstat, httpVars, out, adp, box, wrp, quota>>

\* line 367: entry['count'] = 1
CResetCount(t) ==
    /\ thr[t].pc = "reset_count"
    /\ cobj' = [cobj EXCEPT ![thr[t].entry].count = 1]
    /\ thr' = [thr EXCEPT ![t].pc = "reset_time"]
    /\ cstat' = [cstat EXCEPT !.writes = @ + 1]
    /\ UNCHANGED <<now, rate_limit_map, last, watch, cmap, httpVars, out, adp, box, wrp, quota>>

\* line 368: entry['last_reset'] = now
CResetTime(t) ==
    /\ thr[t].pc = "reset_time"
    /\ cobj' = [cobj EXCEPT ![thr[t].entry].last_reset = thr[t].now]
    /\ thr' = [thr EXCEPT ![t].pc = "store"]
    /\ UNCHANGED <<now, rate_limit_map, last, watch, cmap, cstat, httpVars, out, adp, box, wrp, quota>>

\* line 370, first half: read entry['count']
CReadCount(t) ==
    /\ thr[t].pc = "read_count"
    /\ thr' = [thr EXCEPT ![t].tmp = cobj[thr[t].entry].count, ![t].pc = "write_count"]
    /\ UNCHANGED <<now, rate_limit_map, last, watch, cmap, cobj, cstat, httpVars, out, adp, box, wrp, quota>>

\* line 370, second half: store the sum back into entry['count']
CWriteCount(t) ==
    /\ thr[t].pc = "write_count"
    /\ cobj' = [cobj EXCEPT ![thr[t].entry].count = thr[t].tmp + 1]
    /\ thr' = [thr EXCEPT ![t].pc = "store"]
    /\ cstat' = [cstat EXCEPT !.writes = @ + 1]
    /\ UNCHANGED <<now, rate_limit_map, last, watch, cmap, httpVars, out, adp, box, wrp, quota>>

\* line 372: rate_limit_map[identifier] = entry
CStore(t) ==
    /\ thr[t].pc = "store"
    /\ cmap' = thr[t].entry
    /\ thr' = [thr EXCEPT ![t].pc = "compare"]
    /\ UNCHANGED <<now, rate_limit_map, last, watch, cobj, cstat, httpVars, out, adp, box, wrp, quota>>

\* line 375: return entry['count'] <= RATE_LIMIT
CCompare(t) ==
    /\ thr[t].pc = "compare"
    /\ cstat' = [cstat EXCEPT !.admitted = IF WithinLimit(cobj[thr[t].entry])
                                           THEN @ + 1 ELSE @]
    /\ thr' = [thr EXCEPT ![t] = Idle]
    /\ UNCHANGED <<now, rate_limit_map, last, watch, cmap, cobj, httpVars, out, adp, box, wrp, quota>>

---------------------------------------------------------------------------
(* Configuration: the globals as __main__ leaves them (lines 1110-1152)    *)

DefaultSecret == "insecure-default-secret"

\* the service tokens' lifetime, timedelta(hours=1), in seconds
TOKEN_TTL == 3600

\* lines 1125-1126, 1150-1152: JWT_SECRET once __main__ has run
StartupSecret(enable_auth, secret) ==
    IF enable_auth /\ secret = None THEN DefaultSecret ELSE secret

\* the globals for the arguments --enable-auth, --jwt-secret (or the environment's
\* JWT_SECRET) and --supabase-url/--supabase-key; `configured` keeps what was given
Startup(enable_auth, secret, supabase) ==
    [ENABLE_AUTH |-> enable_auth,
     configured |-> secret,
     JWT_SECRET |-> StartupSecret(enable_auth, secret),
     supabase_client |-> supabase]

Configs ==
    {Startup(a, k, sb) : a \in BOOLEAN, k \in {None, "s1"}, sb \in BOOLEAN}

---------------------------------------------------------------------------
(* Tokens and the Authorization header                                     *)

\* A token is what it decodes to: the key that signed it, its expiry and its claims.
\* A claim that is missing is None; jwt is FALSE for a string that is no JWT.
Token(key, has_exp, exp, sub, is_service, service_name, user_id) ==
    [jwt |-> TRUE, key |-> key, has_exp |-> has_exp, exp |-> exp, sub |-> sub,
     is_service |-> is_service, service_name |-> service_name, user_id |-> user_id]

NoToken ==
    [jwt |-> FALSE, key |-> None, has_exp |-> FALSE, exp |-> 0, sub |-> None,
     is_service |-> FALSE, service_name |-> None, user_id |-> None]

NoHeader == [kind |-> "none", token |-> NoToken]

\* a header that is the empty string
EmptyHeader == [kind |-> "empty", token |-> NoToken]

\* a header that does not start with 'Bearer '
OtherHeader == [kind |-> "other", token |-> NoToken]

Bearer(token) == [kind |-> "bearer", token |-> token]

\* jwt.decode(token, secret, algorithms=['HS256']) at time t (line 212, with the
\* errors lines 216-219 catch): the signature is verified before the expiry
jwt_decode(token, secret, t) ==
    IF ~token.jwt \/ token.key # secret THEN "invalid"
    ELSE IF token.has_exp /\ token.exp <= t THEN "expired"
    ELSE "ok"

\* A JSON body an upstream returns, by the shape of the fields the gateway reads:
\* each is "absent" or written as the JSON it holds.
Data(choices, message, content, candidates, error) ==
    [choices |-> choices, message |-> message, content |-> content,
     candidates |-> candidates, error |-> error]

NoData == Data("absent", "absent", "absent", "absent", "absent")

\* the upstream body a response carries on
NoRaw == [json |-> FALSE, data |-> NoData]

Response(status, error, message) ==
    [status |-> status, error |-> error, message |-> message,
     output |-> None, success |-> None, content |-> None, raw |-> NoRaw]

NoResponse == Response(0, None, None)

jwt_required_sub_only(c, r, t) ==
    IF ~c.ENABLE_AUTH THEN [pass |-> TRUE, user_id |-> None, resp |-> NoResponse]
    ELSE IF r.auth.kind # "bearer"
    THEN [pass |-> FALSE, user_id |-> None,
          resp |-> Response(401, "Unauthorized", "Missing or invalid Authorization header")]
    ELSE [pass |-> TRUE, user_id |-> r.auth.token.sub, resp |-> NoResponse]

\* the decorator (lines 198-222): whether the wrapped handler runs, the user_id it
\* finds on the request, and the response when it does not run
jwt_required(c, r, t) ==
    IF ~c.ENABLE_AUTH THEN [pass |-> TRUE, user_id |-> None, resp |-> NoResponse]
    ELSE IF r.auth.kind # "bearer"
    THEN [pass |-> FALSE, user_id |-> None,
          resp |-> Response(401, "Unauthorized", "Missing or invalid Authorization header")]
    ELSE LET verdict == jwt_decode(r.auth.token, c.JWT_SECRET, t) IN
         IF verdict = "expired"
         THEN [pass |-> FALSE, user_id |-> None,
               resp |-> Response(401, "Unauthorized", "Token expired")]
         ELSE IF verdict = "invalid"
         THEN [pass |-> FALSE, user_id |-> None,
               resp |-> Response(401, "Unauthorized", "Invalid token")]
         ELSE [pass |-> TRUE, user_id |-> r.auth.token.sub, resp |-> NoResponse]

---------------------------------------------------------------------------
(* Requests                                                                *)

\* A request body: json tells whether it parses ("invalid" does not) and whether it
\* is a JSON object; a field the object lacks is None, and options lacking is <<>>.
Body(provider, type, model, messages, input, text, api_key, options) ==
    [json |-> "object", provider |-> provider, type |-> type, model |-> model,
     messages |-> messages, input |-> input, text |-> text, api_key |-> api_key,
     options |-> options, code |-> None]

EmptyBody == Body(None, None, None, None, None, None, None, <<>>)

InvalidJson == [EmptyBody EXCEPT !.json = "invalid"]

\* a body that is valid JSON and no object
JsonArray == [EmptyBody EXCEPT !.json = "array"]

\* the body of an /execute request: {code, input}
CodeBody(code, input) == [EmptyBody EXCEPT !.code = code, !.input = input]

Request(route, method, path, auth, xff, body) ==
    [route |-> route, method |-> method, path |-> path, auth |-> auth,
     xff |-> xff, remote_addr |-> "ip1", body |-> body]

NoRequest == Request(None, None, None, NoHeader, None, EmptyBody)

\* Python's truth value of a string or None
Truthy(x) == x # None /\ x # ""

---------------------------------------------------------------------------
(* /llm: validation, credential, adapter                                   *)

\* the keys of PROVIDER_CONFIG (lines 90-111)
Providers == {"openai", "anthropic", "gemini", "lmstudio", "ollama"}

LocalProviders == {"lmstudio", "ollama"}

\* PROVIDER_CONFIG[provider]['key']: None in the table and assigned nowhere
ProviderKey(provider) == None

\* str.lower() on the provider names the requests use
Lower(p) ==
    CASE p = "OpenAI" -> "openai"
      [] p = "Ollama" -> "ollama"
      [] OTHER -> p

\* rest_body (line 912) is empty
RestEmpty(body) ==
    /\ body.type = None /\ body.model = None /\ body.messages = None
    /\ body.input = None /\ body.text = None /\ body.api_key = None
    /\ DOMAIN body.options = {} /\ body.code = None

\* validate_llm_input (lines 378-407): the error message, or None
validate_llm_input(provider, body) ==
    IF ~Truthy(provider) \/ provider \notin Providers THEN "Invalid provider"
    ELSE IF RestEmpty(body) THEN "Missing request body"
    ELSE IF body.type \notin {"chat", "embeddings", "models", "tokenize"}
    THEN "Invalid type (must be 'chat', 'embeddings', 'models', or 'tokenize')"
    ELSE IF body.type = "chat" /\ body.messages = None
    THEN "Missing 'messages' for chat request"
    ELSE IF body.type = "embeddings" /\ body.input = None
    THEN "Missing 'input' for embeddings request"
    ELSE IF body.type \in {"chat", "embeddings"} /\ body.model = None
    THEN "Missing 'model' parameter"
    ELSE IF body.type = "tokenize" /\ body.text = None
    THEN "Missing 'text' for tokenize request"
    ELSE IF body.type = "tokenize" /\ body.model = None
    THEN "Missing 'model' parameter for tokenize request"
    ELSE None

\* the rows of the key_store table
KeyStoreRows ==
    {[user_id |-> "u1", provider |-> "openai", api_key |-> "ks1"],
     [user_id |-> "u1", provider |-> "gemini", api_key |-> "ks2"],
     [user_id |-> "u2", provider |-> "anthropic", api_key |-> "ks3"]}

\* the characters of the keys the key store holds: of 10, 8 and 12 characters
KeyChars(k) ==
    CASE k = "ks1" -> <<"s", "k", "-", "a", "b", "c", "d", "e", "f", "1">>
      [] k = "ks2" -> <<"A", "I", "z", "a", "x", "y", "z", "2">>
      [] k = "ks3" -> <<"s", "k", "-", "a", "n", "t", "-", "q", "r", "s", "t", "3">>
      [] OTHER -> <<>>

\* line 182: api_key[:4] + '*' * (len(api_key) - 8) + api_key[-4:] if
\* len(api_key) > 8 else "****"
masked_key(chars) ==
    IF Len(chars) > 8
    THEN SubSeq(chars, 1, 4) \o [i \in 1..(Len(chars) - 8) |-> "*"]
         \o SubSeq(chars, Len(chars) - 3, Len(chars))
    ELSE <<"*", "*", "*", "*">>

\* a log record: its level, and its text as the format string's prefix followed
\* by the characters formatted into it
LogRecord(level, prefix, chars) == [level |-> level, text |-> <<prefix>> \o chars]

\* the records get_api_key_from_supabase writes about a row it found: the response
\* and its data are formatted whole (lines 148, 173, 177), the key masked
\* (lines 182-183)
FoundLogs(api_key) ==
    {LogRecord("DEBUG", "Raw response: ", KeyChars(api_key)),
     LogRecord("DEBUG", "response.data: ", KeyChars(api_key)),
     LogRecord("DEBUG", "response.data[0]: ", KeyChars(api_key)),
     LogRecord("DEBUG", "Found API key: ", masked_key(KeyChars(api_key)))}

NoLookup == [called |-> FALSE, queried |-> FALSE, user_id |-> None, provider |-> None,
             api_key |-> None, logs |-> {}]

\* get_api_key_from_supabase (lines 130-195): the query it makes, the key it returns
\* and what it logs of the key
get_api_key_from_supabase(c, user_id, provider) ==
    LET rows == {row \in KeyStoreRows : row.user_id = user_id /\ row.provider = provider}
        found == c.supabase_client /\ rows # {}
    IN [called |-> TRUE,
        queried |-> c.supabase_client,
        user_id |-> user_id,
        provider |-> provider,
        api_key |-> IF found THEN (CHOOSE row \in rows : TRUE).api_key ELSE None,
        logs |-> IF found THEN FoundLogs((CHOOSE row \in rows : TRUE).api_key) ELSE {}]

resolve_credential_lookup_anyway(c, provider, body, user_id) ==
    IF provider \in LocalProviders
    THEN [proceed |-> TRUE, api_key |-> None, lookup |-> NoLookup, resp |-> NoResponse]
    ELSE [proceed |-> FALSE, api_key |-> None,
          lookup |-> get_api_key_from_supabase(c, user_id, provider),
          resp |-> Response(400, "user_id required but not found in request",
                            "Please provide a user_id in the request for testing")]

\* the credential block of llm_proxy (lines 918-943): api_key starts as None and the
\* body's api_key is not read; for a provider that is not local the block ends in
\* the return of line 940 whether or not the lookup found a key
resolve_credential(c, provider, body, user_id) ==
    IF provider \in LocalProviders
    THEN [proceed |-> TRUE, api_key |-> None, lookup |-> NoLookup, resp |-> NoResponse]
    ELSE IF ~Truthy(None) /\ ~Truthy(ProviderKey(provider))
    THEN IF Truthy(user_id)
         THEN [proceed |-> FALSE, api_key |-> None,
               lookup |-> get_api_key_from_supabase(c, user_id, provider),
               resp |-> Response(400, "No API key returned", "Please verify your API key is set for the provider")]
         ELSE [proceed |-> FALSE, api_key |-> None, lookup |-> NoLookup,
               resp |-> Response(400, "user_id required but not found in request",
                                 "Please provide a user_id in the request for testing")]
    ELSE [proceed |-> TRUE, api_key |-> None, lookup |-> NoLookup, resp |-> NoResponse]

NoUpstream ==
    [sent |-> FALSE, provider |-> None, path |-> None, method |-> None,
     key_in |-> None, key |-> None, json |-> <<>>]

Upstream(provider, path, method, key_in, key, json) ==
    [sent |-> TRUE, provider |-> provider, path |-> path, method |-> method,
     key_in |-> key_in, key |-> key, json |-> json]

\* {"model": ..., "messages": ..., **options}: an option replaces a field of its name
ModelMessages(body) == body.options @@ [model |-> body.model, messages |-> body.messages]

ModelInput(body) == body.options @@ [model |-> body.model, input |-> body.input]

WholeBody(body) ==
    body.options @@ [model |-> body.model, messages |-> body.messages,
                     api_key |-> body.api_key]

\* the JSON body proxy_llm_request posts for a chat request to a provider with the
\* OpenAI body shape (lines 453-457, 508-512, 577-581, 606-610)
ChatJson(body) == ModelMessages(body)

\* ... and for an embeddings request (lines 460-464, 515-519, 584-588, 613-617)
EmbeddingsJson(body) == ModelInput(body)

\* lines 541-552 and 555-558: the Gemini bodies
GeminiJson(req_type, body) ==
    IF req_type = "chat"
    THEN [contents |-> [role_parts_of |-> body.messages],
          generationConfig |-> body.options @@ [temperature |-> "0.7"]]
    ELSE body.options @@ [content |-> [parts_text |-> body.input]]

\* where the provider's key travels (lines 502, 535, 540)
KeyIn(provider) ==
    CASE provider = "openai" -> "Authorization: Bearer"
      [] provider = "anthropic" -> "x-api-key"
      [] provider = "gemini" -> "query"
      [] OTHER -> None

\* the URL suffix of a request (lines 450-630)
Path(provider, req_type, body) ==
    CASE req_type = "models" ->
            (IF provider = "ollama" THEN "/tags" ELSE "/models")
      [] provider = "gemini" /\ req_type = "chat" -> "/models/{model}:generateContent"
      [] provider = "gemini" /\ req_type = "embeddings" -> "/models/{model}:embedContent"
      [] req_type = "embeddings" -> "/embeddings"
      [] provider = "anthropic" -> "/messages"
      [] provider = "ollama" -> "/chat"
      [] OTHER -> "/chat/completions"

\* proxy_llm_request up to its request (lines 435-637): what it does before any
\* reply. "raise" is the ValueError of line 445, "local" a tokenize answered without
\* a request, "send" a request to the provider.
proxy_llm_request(provider, req_type, body, api_key) ==
    IF ~Truthy(api_key) /\ provider \notin LocalProviders
    THEN [does |-> "raise", upstream |-> NoUpstream]
    ELSE IF req_type = "tokenize"
    THEN [does |-> "local", upstream |-> NoUpstream]
    ELSE IF req_type = "models"
    THEN [does |-> "send",
          upstream |-> Upstream(provider, Path(provider, req_type, body), "GET",
                                KeyIn(provider), api_key, <<>>)]
    ELSE [does |-> "send",
          upstream |-> Upstream(provider, Path(provider, req_type, body), "POST",
                                KeyIn(provider), api_key,
                                IF provider = "gemini" THEN GeminiJson(req_type, body)
                                ELSE IF req_type = "chat" THEN ChatJson(body)
                                ELSE EmbeddingsJson(body))]

\* What the provider answers: no answer (the request raised), or a status and a
\* body that is JSON or not.
Reply(status, json, data) ==
    [answered |-> TRUE, status |-> status, json |-> json, data |-> data]

ConnectionError == [answered |-> FALSE, status |-> 0, json |-> FALSE, data |-> NoData]

NoReply == [answered |-> FALSE, status |-> -1, json |-> FALSE, data |-> NoData]

Choices(c) == Data(c, "absent", "absent", "absent", "absent")

ErrorBody(e) == Data("absent", "absent", "absent", "absent", e)

Replies ==
    {ConnectionError,
     Reply(200, TRUE, Choices("[{message: {content}}]")),
     Reply(200, TRUE, Data("absent", "{content}", "absent", "absent", "absent")),
     Reply(200, TRUE, NoData),
     Reply(200, TRUE, Choices("[]")),
     Reply(200, TRUE, Choices("[{}]")),
     Reply(200, FALSE, NoData),
     Reply(500, TRUE, ErrorBody("{message}")),
     Reply(429, TRUE, ErrorBody("{}")),
     Reply(404, TRUE, ErrorBody("string")),
     Reply(502, FALSE, NoData)}

\* lines 639-643: response.json(), or the payload that stands for a body that is
\* not JSON
upstream_data(reply) ==
    IF reply.json THEN reply.data ELSE ErrorBody("string")

\* x.get(key, [{}])[0]...: the text at the end of a chain of lookups through the
\* first element of a list. "raise" is the IndexError of an empty list, None a key
\* that is not there.
FirstText(list, full) ==
    IF list = "[]" THEN "raise"
    ELSE IF list = full THEN "hi"
    ELSE None

\* format_llm_response for a chat (lines 412-429): what it raises or the content
format_llm_response(provider, data) ==
    LET found ==
            CASE provider = "openai" ->
                    FirstText(data.choices, "[{message: {content}}]")
              [] provider = "anthropic" ->
                    FirstText(data.content, "[{text}]")
              [] provider = "gemini" ->
                    IF data.candidates = "[{content: {parts: []}}]" THEN "raise"
                    ELSE FirstText(data.candidates, "[{content: {parts: [{text}]}}]")
              [] OTHER ->
                    LET first == FirstText(data.choices, "[{message: {content}}]")
                    IN IF first # None THEN first
                       ELSE IF data.message = "{content}" THEN "hi"
                       ELSE None
    IN [raised |-> found = "raise",
        content |-> IF found = None THEN "No response" ELSE found]

\* format_llm_response for the two local providers, the ones /llm reaches
LocalContent(data) == format_llm_response("ollama", data).content

\* lines 945-967 after proxy_llm_request returned: the status and data of the reply,
\* or status 500 and the exception's message when the request raised (line 651)
LlmReplyResponse(provider, req_type, reply) ==
    LET data == upstream_data(reply)
        formatted == format_llm_response(provider, data)
    IN IF ~reply.answered
       THEN Response(500, "request error", None)
       ELSE IF reply.status >= 400
       THEN IF data.error = "string"
            THEN Response(500, "'str' object has no attribute 'get'", None)
            ELSE IF data.error = "{message}"
            THEN Response(reply.status, "boom", None)
            ELSE Response(reply.status, "Provider API error", None)
       ELSE IF req_type = "chat"
       THEN IF formatted.raised
            THEN Response(500, "list index out of range", None)
            ELSE [Response(reply.status, None, None) EXCEPT !.content = formatted.content]
       ELSE [Response(reply.status, None, None)
                EXCEPT !.raw = [json |-> TRUE, data |-> data]]

\* what the driver process did: its exit code, what its stdout holds ("" nothing,
\* "json" a JSON value that is no object, "object" a JSON object without an error
\* key, "error object" one with it, "text" no JSON), the value under the error key,
\* and its stderr
Driver(returncode, stdout, error_value, stderr) ==
    [timeout |-> FALSE, returncode |-> returncode, stdout |-> stdout,
     error_value |-> error_value, stderr |-> stderr]

NoDriver == Driver(0, "", "", "")

TimedOut == [NoDriver EXCEPT !.timeout = TRUE]

NoSandbox == [tempdir |-> FALSE, spawned |-> FALSE, removed |-> FALSE,
              extra |-> FALSE, driver |-> NoDriver]

NoForward == [sent |-> FALSE, base |-> None, path |-> None, method |-> None,
              body |-> EmptyBody, host |-> FALSE]

\* proxy_llm_request calling again after a failed attempt
requests_made_with_retry(upstream, reply) ==
    IF ~upstream.sent THEN 0
    ELSE IF ~reply.answered \/ reply.status >= 500 THEN 2
    ELSE 1

\* lines 632-652: the requests proxy_llm_request makes for one call: one
\* requests.get or requests.post, whose failure or error status is returned
requests_made(upstream, reply) == IF upstream.sent THEN 1 ELSE 0

\* what handling a request did
Effect(handler, user_id, rlid, admitted, lookup, upstream, reply) ==
    [handler |-> handler, user_id |-> user_id, rlid |-> rlid, admitted |-> admitted,
     lookup |-> lookup, upstream |-> upstream, reply |-> reply,
     attempts |-> requests_made(upstream, reply),
     sandbox |-> NoSandbox, forward |-> NoForward]

NoEffect == Effect(FALSE, None, None, FALSE, NoLookup, NoUpstream, NoReply)

\* lines 891-895: the rate-limit identifier
rate_limit_id(r, user_id) ==
    IF Truthy(user_id) THEN user_id
    ELSE IF r.xff # None THEN r.xff ELSE r.remote_addr

\* a rate limit that does not count the calls answered 400
quota_charged_unless_400(map, id, t, status) ==
    IF status = 400 THEN map ELSE rate_limit_update(map, id, t)

\* lines 897-902: rate_limit is called before the body is read, so the map after
\* the call holds its count whatever status the call ends with
quota_charged(map, id, t, status) == rate_limit_update(map, id, t)

\* the body of llm_proxy (lines 889-967) for the user_id the decorator left
llm_handler(c, map, t, r, user_id, reply) ==
    LET id == rate_limit_id(r, user_id)
        allowed == rate_limit(map, id, t)
        done(response, lookup, upstream) ==
            [resp |-> response, map |-> quota_charged(map, id, t, response.status),
             eff |-> Effect(TRUE, user_id, id, allowed, lookup, upstream,
                            IF upstream.sent THEN reply ELSE NoReply)]
        provider == Lower(IF r.body.provider = None THEN "" ELSE r.body.provider)
        problem == validate_llm_input(provider, r.body)
        cred == resolve_credential(c, provider, r.body, user_id)
        call == proxy_llm_request(provider, r.body.type, r.body, cred.api_key)
    IN IF ~allowed
       THEN done(Response(429, "Rate limit exceeded",
                          "Too many requests, please try again later"),
                 NoLookup, NoUpstream)
       ELSE IF r.body.json = "invalid"
       THEN done(Response(400, "Invalid JSON", None), NoLookup, NoUpstream)
       ELSE IF r.body.json # "object"
       THEN done(Response(500, None, "Internal Server Error"), NoLookup, NoUpstream)
       ELSE IF problem # None
       THEN done(Response(400, problem, None), NoLookup, NoUpstream)
       ELSE IF ~cred.proceed
       THEN done(cred.resp, cred.lookup, NoUpstream)
       ELSE IF call.does = "raise"
       THEN done(Response(500, "No API key provided", None), cred.lookup, NoUpstream)
       ELSE IF call.does = "local"
       THEN done([Response(200, None, None) EXCEPT !.content = "tokens"],
                 cred.lookup, NoUpstream)
       ELSE done(LlmReplyResponse(provider, r.body.type, reply), cred.lookup,
                 call.upstream)

\* a request through the decorator and then the handler
llm_route(c, map, t, r, reply) ==
    LET gate == jwt_required(c, r, t)
    IN IF gate.pass
       THEN llm_handler(c, map, t, r, gate.user_id, reply)
       ELSE [resp |-> gate.resp, map |-> map, eff |-> NoEffect]

---------------------------------------------------------------------------
(* /execute and the passthrough routes                                     *)

\* The submitted code, told by what it does when the driver imports it and calls
\* its first function.
Codes ==
    {"no function", "syntax error", "returns", "returns object", "returns error object",
     "returns empty error", "raises", "raises empty", "prints", "warns", "exits",
     "crashes", "sleeps", "writes file", "not a string"}

\* extract_function_info taking the name of a function that is not there
has_function_always(code) == TRUE

\* extract_function_info (lines 686-725) finds a function definition: ast.parse
\* raises SyntaxError for code that does not parse, and ast.walk meets no
\* FunctionDef in code that defines none; both return no name
has_function(code) == code \notin {"no function", "syntax error"}

\* lines 864-869: the response to a call whose driver was killed
ExecutionTimeout == "Execution timed out after 10 seconds"

\* lines 816-821: the error of a call whose code has no function
NoCallableFound == "Could not find a valid function definition in the code"

\* the message of the exception the function raises
ExceptionMessage(code) == IF code = "raises" THEN "boom" ELSE ""

\* subprocess.run on the wrapper of generate_wrapper_code (lines 727-775, 833-838):
\* the wrapper prints json.dumps(result), or json.dumps({"error": str(e)}) for an
\* Exception the function raises (lines 768-774)
driver(code) ==
    CASE code = "sleeps" -> TimedOut
      [] code = "returns object" -> Driver(0, "object", "", "")
      [] code = "returns error object" -> Driver(0, "error object", "failed", "")
      [] code = "returns empty error" -> Driver(0, "error object", "", "")
      [] code \in {"raises", "raises empty"} ->
            Driver(0, "error object", ExceptionMessage(code), "")
      [] code = "prints" -> Driver(0, "text", "", "")
      [] code = "warns" -> Driver(0, "json", "", "warning")
      [] code = "exits" -> Driver(3, "", "", "")
      [] code = "crashes" -> Driver(1, "", "", "Traceback")
      [] OTHER -> Driver(0, "json", "", "")

\* lines 840-863: output, error and success from the driver's result
classify(d) ==
    LET is_error == d.stdout = "error object"
        error == IF is_error THEN d.error_value ELSE d.stderr
    IN [output |-> IF is_error THEN "" ELSE d.stdout,
        error |-> error,
        success |-> d.returncode = 0 /\ ~Truthy(error)]

\* execute from its first line to its return statement (lines 789-876; lines
\* 160-247 of the script): the response it returns and what it did in the
\* temporary directory
sandbox_run(r) ==
    LET tmp(spawned, d) ==
            [tempdir |-> TRUE, spawned |-> spawned, removed |-> FALSE,
             extra |-> r.body.code = "writes file", driver |-> d]
        answer(error, output, success, sandbox) ==
            [resp |-> [Response(200, error, None) EXCEPT !.output = output,
                                                         !.success = success],
             sandbox |-> sandbox]
        result == driver(r.body.code)
        verdict == classify(result)
    IN IF r.body.json = "invalid"
       THEN [resp |-> Response(400, None, "Bad Request"), sandbox |-> NoSandbox]
       ELSE IF r.body.json # "object"
       THEN [resp |-> Response(500, None, "Internal Server Error"), sandbox |-> NoSandbox]
       ELSE IF r.body = EmptyBody
       THEN [resp |-> [Response(400, "No JSON data provided", None) EXCEPT !.success = FALSE],
             sandbox |-> NoSandbox]
       ELSE IF ~Truthy(r.body.code)
       THEN [resp |-> [Response(400, "No code provided", None) EXCEPT !.success = FALSE],
             sandbox |-> NoSandbox]
       ELSE IF r.body.code = "not a string"
       THEN answer("write() argument must be str", "", FALSE, tmp(FALSE, NoDriver))
       ELSE IF ~has_function(r.body.code)
       THEN answer(NoCallableFound, "", FALSE, tmp(FALSE, NoDriver))
       ELSE IF result.timeout
       THEN answer(ExecutionTimeout, "", FALSE, tmp(TRUE, result))
       ELSE answer(verdict.error, verdict.output, verdict.success, tmp(TRUE, result))

\* the driver process of a call: how long the submitted code runs, how long it
\* has run, and whether subprocess.run killed it
NoBox == [phase |-> "Idle", duration |-> 0, elapsed |-> 0, killed |-> FALSE]

\* a driver that never ends by itself
Forever == MaxDuration + 1

\* subprocess.run without a timeout
no_deadline(elapsed) == FALSE

\* communicate(timeout=10) inside subprocess.run (lines 833-838) raises
\* TimeoutExpired once the driver has run for the timeout
deadline(elapsed) == elapsed >= SANDBOX_TIMEOUT

\* execute of llm-proxy.py (lines 789-884): the finally clause removes the
\* directory tree
execute_handler(r) ==
    LET run == sandbox_run(r)
    IN [resp |-> run.resp,
        sandbox |-> [run.sandbox EXCEPT !.removed = run.sandbox.tempdir]]

\* execute of "local-llm-proxy copy.py" (lines 160-255): the finally clause removes
\* tool_code.py and wrapper.py and then calls os.rmdir, which raises OSError when the
\* directory holds anything else: a file the code wrote, or the __pycache__ the
\* driver's import leaves when the interpreter caches bytecode. The exception of the
\* finally clause replaces the response.
execute_script_handler(r, pycache) ==
    LET run == sandbox_run(r)
        left == run.sandbox.extra \/ (run.sandbox.spawned /\ pycache)
    IN IF run.sandbox.tempdir /\ left
       THEN [resp |-> Response(500, None, "Internal Server Error"),
             sandbox |-> run.sandbox]
       ELSE [resp |-> run.resp,
             sandbox |-> [run.sandbox EXCEPT !.removed = run.sandbox.tempdir]]

\* the local backend a passthrough route names (lines 969-988)
Backend(route) == IF route = "ollama" THEN "OLLAMA_BASE_URL" ELSE "LMSTUDIO_BASE_URL"

\* proxy_endpoint_request (lines 655-683) for an inbound request and the backend's
\* reply: the request forwarded, and the response
proxy_endpoint_request(r, reply) ==
    [forward |-> [sent |-> TRUE, base |-> Backend(r.route),
                  path |-> IF r.route = "v1" THEN <<"v1", r.path>> ELSE <<r.path>>,
                  method |-> r.method, body |-> r.body, host |-> FALSE],
     resp |-> IF reply.answered
              THEN [Response(reply.status, None, None)
                       EXCEPT !.raw = [json |-> reply.json, data |-> reply.data]]
              ELSE Response(502, "Failed to proxy request", None)]

---------------------------------------------------------------------------
(* The gateway handling a request                                          *)

\* the keys a presented token may be signed with
Secrets == {"s1", DefaultSecret, "other"}

UserToken(key, has_exp, exp, sub) == Token(key, has_exp, exp, sub, FALSE, None, None)

Tokens ==
    {NoToken}
    \cup {UserToken(k, FALSE, 0, "u1") : k \in Secrets}
    \cup {UserToken(k, TRUE, 0, "u1") : k \in Secrets}
    \cup {UserToken("s1", TRUE, TOKEN_TTL, "u1"),
          UserToken("s1", FALSE, 0, "u2"),
          Token("s1", FALSE, 0, "u1", TRUE, "llm-proxy", "u2"),
          Token("s1", TRUE, TOKEN_TTL, None, TRUE, "llm-proxy", "u2"),
          Token("s1", TRUE, TOKEN_TTL, None, TRUE, "llm-proxy", None),
          Token("s1", FALSE, 0, "u1", FALSE, None, "u2")}

Headers == {NoHeader, EmptyHeader, OtherHeader} \cup {Bearer(t) : t \in Tokens}

NoOptions == <<>>

KeyOption(k) == [api_key |-> k]

\* the /llm bodies: the unified request with and without an explicit api_key, with
\* and without an api_key among its options, and bodies that fail validation
LlmBodies ==
    {Body(p, "chat", "m1", "msgs", None, None, k, o) :
        p \in {"openai", "OpenAI", "anthropic", "gemini", "ollama", "lmstudio"},
        k \in {None, "k1"},
        o \in {NoOptions, KeyOption("k1"), [temperature |-> "0.2"]}}
    \cup {Body(p, "embeddings", "m1", None, "in", None, k, NoOptions) :
        p \in {"openai", "gemini", "ollama"}, k \in {None, "k1"}}
    \cup {Body(p, "models", None, None, None, None, k, NoOptions) :
        p \in {"openai", "ollama"}, k \in {None, "k1"}}
    \cup {Body("ollama", "tokenize", "m1", None, None, "text", None, NoOptions),
          Body("openai", "tokenize", "m1", None, None, "text", "k1", NoOptions),
          Body("nope", "chat", "m1", "msgs", None, None, "k1", NoOptions),
          Body("openai", "chat", None, "msgs", None, None, "k1", NoOptions),
          Body(None, None, None, None, None, None, None, NoOptions),
          InvalidJson, JsonArray}

\* the headers sent with every body: none, a user's token, a service token
BodyHeaders ==
    {NoHeader,
     Bearer(UserToken("s1", FALSE, 0, "u1")),
     Bearer(UserToken("s1", FALSE, 0, "u2")),
     Bearer(Token("s1", TRUE, TOKEN_TTL, None, TRUE, "llm-proxy", "u2"))}

OllamaChat == Body("ollama", "chat", "m1", "msgs", None, None, None, NoOptions)

OpenAiChat == Body("openai", "chat", "m1", "msgs", None, None, "k1", NoOptions)

ExecuteBodies ==
    {CodeBody(c, "in") : c \in Codes \cup {None}}
    \cup {EmptyBody, InvalidJson, JsonArray}

\* every header with a few bodies, and every body with a few headers
LlmRequests ==
    {Request("llm", "POST", "llm", h, x, b) :
        h \in Headers, x \in {None, "f1"}, b \in {OllamaChat, OpenAiChat}}
    \cup {Request("llm", "POST", "llm", h, None, b) :
        h \in BodyHeaders, b \in LlmBodies}

ExecuteRequests ==
    {Request("execute", "POST", "execute", h, None, b) :
        h \in Headers, b \in {CodeBody("returns", "in"), EmptyBody}}
    \cup {Request("execute", "POST", "execute", h, None, b) :
        h \in {NoHeader, Bearer(UserToken("s1", FALSE, 0, "u1"))}, b \in ExecuteBodies}

EndpointRequests ==
    {Request(p[1], p[2], "api/tags", h, None, EmptyBody) :
        h \in Headers, p \in {<<"ollama", "GET">>, <<"lmstudio", "POST">>,
                              <<"v1", "DELETE">>}}

\* the requests to /execute of the script, which has no authentication
ScriptRequests ==
    {Request("script execute", "POST", "execute", NoHeader, None, b) :
        b \in ExecuteBodies}

\* a run handles one request, from any state of Init and at any time
Pending(requests) == IF req = NoRequest THEN requests ELSE {}

\* the rate_limit call of a handled request, if it made one
LastAfter(res, map, t) ==
    IF res.eff.rlid = None THEN last ELSE LastCall(map, res.eff.rlid, t)

\* the state after a request is handled
Handled(r, res) ==
    /\ req' = r
    /\ resp' = res.resp
    /\ eff' = res.eff
    /\ rate_limit_map' = res.map
    /\ last' = LastAfter(res, rate_limit_map, now)
    /\ UNCHANGED <<now, watch, cfg, concVars, out, adp, box, wrp, quota>>

\* POST /llm
llm_proxy(r, reply) ==
    /\ r.route = "llm"
    /\ LET res == llm_route(cfg, rate_limit_map, now, r, reply)
       IN /\ (reply = NoReply) <=> ~res.eff.upstream.sent
          /\ Handled(r, res)

\* /execute with the rate-limit check of /llm in front of its body
execute_rate_limited(r) ==
    /\ r.route = "execute"
    /\ LET gate == jwt_required(cfg, r, now)
           run == execute_handler(r)
           id == rate_limit_id(r, gate.user_id)
           allowed == rate_limit(rate_limit_map, id, now)
           map2 == rate_limit_update(rate_limit_map, id, now)
           entered == Effect(TRUE, gate.user_id, id, allowed, NoLookup, NoUpstream,
                             NoReply)
       IN Handled(r, IF ~gate.pass
                     THEN [resp |-> gate.resp, map |-> rate_limit_map, eff |-> NoEffect]
                     ELSE IF ~allowed
                     THEN [resp |-> Response(429, "Rate limit exceeded",
                                             "Too many requests, please try again later"),
                           map |-> map2, eff |-> entered]
                     ELSE [resp |-> run.resp, map |-> map2,
                           eff |-> [entered EXCEPT !.sandbox = run.sandbox]])

\* POST /execute
execute(r) ==
    /\ r.route = "execute"
    /\ LET gate == jwt_required(cfg, r, now)
           run == execute_handler(r)
       IN Handled(r, IF gate.pass
                     THEN [resp |-> run.resp, map |-> rate_limit_map,
                           eff |-> [Effect(TRUE, gate.user_id, None, FALSE, NoLookup,
                                           NoUpstream, NoReply)
                                    EXCEPT !.sandbox = run.sandbox]]
                     ELSE [resp |-> gate.resp, map |-> rate_limit_map, eff |-> NoEffect])

\* POST /execute of "local-llm-proxy copy.py"
execute_script(r, pycache) ==
    /\ r.route = "script execute"
    /\ LET run == execute_script_handler(r, pycache)
       IN Handled(r, [resp |-> run.resp, map |-> rate_limit_map,
                      eff |-> [Effect(TRUE, None, None, FALSE, NoLookup, NoUpstream,
                                      NoReply)
                               EXCEPT !.sandbox = run.sandbox]])

\* /ollama/<path>, /lmstudio/<path>, /v1/<path>
proxy_endpoint(r, reply) ==
    /\ r.route \in {"ollama", "lmstudio", "v1"}
    /\ LET gate == jwt_required(cfg, r, now)
           fwd == proxy_endpoint_request(r, reply)
       IN /\ (reply = NoReply) <=> ~gate.pass
          /\ Handled(r, IF gate.pass
                        THEN [resp |-> fwd.resp, map |-> rate_limit_map,
                              eff |-> [Effect(TRUE, gate.user_id, None, FALSE, NoLookup,
                                              NoUpstream, reply)
                                       EXCEPT !.forward = fwd.forward]]
                        ELSE [resp |-> gate.resp, map |-> rate_limit_map,
                              eff |-> NoEffect])

\* the methods of a request
Methods == {"GET", "POST", "PUT", "DELETE", "OPTIONS", "HEAD", "PATCH"}

\* the methods of the passthrough routes (lines 969, 976, 983); the router adds
\* HEAD to a route that takes GET
RouteMethods == {"GET", "POST", "PUT", "DELETE", "OPTIONS", "HEAD"}

\* requests to the passthrough routes, for every method
PassthroughRequests ==
    {Request(route, m, path, h, None, b) :
        route \in {"ollama", "lmstudio", "v1"}, m \in Methods,
        path \in {"api/tags", "api/chat"},
        h \in {NoHeader, Bearer(UserToken("s1", FALSE, 0, "u1"))},
        b \in {EmptyBody, OllamaChat}}

\* the router in front of a passthrough route: a request whose method the route
\* does not list is answered 405 and no view function is called
passthrough(r, reply) ==
    IF r.method \in RouteMethods
    THEN proxy_endpoint(r, reply)
    ELSE /\ reply = NoReply
         /\ Handled(r, [resp |-> Response(405, None, "Method Not Allowed"),
                        map |-> rate_limit_map, eff |-> NoEffect])

\* the /llm requests of one caller: a valid one, and one for each answer 400
\* (invalid JSON, validation error, MissingIdentity or MissingCredential)
QuotaBodies ==
    {OllamaChat, InvalidJson, OpenAiChat,
     Body("ollama", "chat", None, "msgs", None, None, None, NoOptions)}

QuotaRequests(c) ==
    {Request("llm", "POST", "llm",
             IF c.ENABLE_AUTH THEN Bearer(UserToken("s1", FALSE, 0, "u1")) ELSE NoHeader,
             None, b) : b \in QuotaBodies}

QuotaReplies == {Reply(200, TRUE, Choices("[{message: {content}}]")), NoReply}

\* POST /llm once more by the same caller; the observer counts the calls of the
\* caller's current window that the gateway answered 400
llm_again(r, reply) ==
    \E res \in {llm_route(cfg, rate_limit_map, now, r, reply)} :
    LET id == res.eff.rlid
        fresh == Branch(rate_limit_map, id, now) # "incr"
        bad == res.resp.status = 400 /\ ~res.eff.upstream.sent
    IN /\ id # None
       /\ id \in DOMAIN rate_limit_map =>
             \/ rate_limit_map[id].count < MaxCount
             \/ WindowPassed(now, rate_limit_map[id])
       /\ (reply = NoReply) <=> ~res.eff.upstream.sent
       /\ req' = r
       /\ resp' = res.resp
       /\ eff' = res.eff
       /\ rate_limit_map' = res.map
       /\ last' = LastCall(rate_limit_map, id, now)
       /\ quota' = (IF fresh THEN 0 ELSE quota) + (IF bad THEN 1 ELSE 0)
       /\ UNCHANGED <<now, watch, cfg, concVars, out, adp, box, wrp>>

HttpIdle ==
    /\ cfg = Startup(FALSE, None, FALSE)
    /\ req = NoRequest
    /\ resp = NoResponse
    /\ eff = NoEffect

---------------------------------------------------------------------------
(* Service-to-service calls: create_service_token and get_auth_headers     *)

ServiceName == "llm-proxy"

create_service_token_with_subject(c, user_id, t) ==
    IF ~Truthy(c.JWT_SECRET) THEN [raised |-> TRUE, token |-> NoToken]
    ELSE [raised |-> FALSE,
          token |-> Token(c.JWT_SECRET, TRUE, t + TOKEN_TTL, user_id, TRUE, ServiceName,
                          None)]

\* create_service_token (lines 288-315) at time t: the ValueError of line 300, or
\* the token signed with JWT_SECRET
create_service_token(c, user_id, t) ==
    IF ~Truthy(c.JWT_SECRET) THEN [raised |-> TRUE, token |-> NoToken]
    ELSE [raised |-> FALSE,
          token |-> Token(c.JWT_SECRET, TRUE, t + TOKEN_TTL, None, TRUE, ServiceName,
                          IF Truthy(user_id) THEN user_id ELSE None)]

\* the header is a non-empty string
HeaderTruthy(h) == h.kind \notin {"none", "empty"}

NoOut == [called |-> FALSE, inbound |-> NoHeader, user_id |-> None, at |-> 0,
          has_authorization |-> FALSE, authorization |-> NoHeader, minted |-> FALSE]

\* get_auth_headers (lines 318-348), called at time t while a request with the
\* Authorization header `inbound` is handled
auth_headers(c, inbound, user_id, t) ==
    LET made == create_service_token(c, user_id, t)
    IN [called |-> TRUE, inbound |-> inbound, user_id |-> user_id, at |-> t,
        has_authorization |-> HeaderTruthy(inbound) \/ ~made.raised,
        authorization |-> IF HeaderTruthy(inbound) THEN inbound
                          ELSE IF made.raised THEN NoHeader
                          ELSE Bearer(made.token),
        minted |-> ~HeaderTruthy(inbound) /\ ~made.raised]

\* the user ids get_auth_headers is called with
UserIds == {None, "", "u1", "u2"}

get_auth_headers(inbound, user_id) ==
    /\ out' = auth_headers(cfg, inbound, user_id, now)
    /\ UNCHANGED <<now, rate_limit_map, last, watch, concVars, httpVars, adp, box, wrp, quota>>

---------------------------------------------------------------------------
(* proxy_llm_request called on its own, with the tokenizer library of the  *)
(* process                                                                 *)

\* the characters of the texts the tokenize requests carry
TextChars(text) ==
    CASE text = "a b" -> <<"a", " ", "b">>
      [] text = " ab  c " -> <<" ", "a", "b", " ", " ", "c", " ">>
      [] text = "abc" -> <<"a", "b", "c">>
      [] OTHER -> <<>>

\* str.split(): the maximal runs of characters that are not whitespace
RECURSIVE split(_)
split(chars) ==
    IF chars = <<>> THEN <<>>
    ELSE IF Head(chars) = " " THEN split(Tail(chars))
    ELSE LET n == IF \E i \in 1..Len(chars) : chars[i] = " "
                  THEN (CHOOSE i \in 1..Len(chars) :
                           /\ chars[i] = " "
                           /\ \A j \in 1..(i - 1) : chars[j] # " ") - 1
                  ELSE Len(chars)
         IN <<SubSeq(chars, 1, n)>> \o split(SubSeq(chars, n + 1, Len(chars)))

\* the models tiktoken.encoding_for_model maps to an encoding; for another model it
\* raises KeyError
TiktokenModels == {"gpt-4"}

\* the longest token list the tokenizer library returns
MaxNative == 2

\* the tokenize branches of proxy_llm_request (lines 465-497, 520-529, 560-569,
\* 589-598, 618-627): tiktoken tells whether the library imports, native is the
\* number of tokens its encoder returns
tokenize(provider, body, tiktoken, native) ==
    IF provider = "openai" /\ tiktoken
    THEN IF body.model \in TiktokenModels
         THEN [raised |-> FALSE, status |-> 200, tokens |-> [i \in 1..native |-> i],
               token_count |-> native]
         ELSE [raised |-> TRUE, status |-> 0, tokens |-> <<>>, token_count |-> 0]
    ELSE [raised |-> FALSE, status |-> 200, tokens |-> split(TextChars(body.text)),
          token_count |-> Len(split(TextChars(body.text)))]

NoTokens == [raised |-> FALSE, status |-> 0, tokens |-> <<>>, token_count |-> 0]

NoAdapterCall ==
    [called |-> FALSE, provider |-> None, body |-> EmptyBody, api_key |-> None,
     tiktoken |-> FALSE, does |-> None, upstream |-> NoUpstream, result |-> NoTokens]

\* the bodies proxy_llm_request is called with
AdapterBodies ==
    {Body(None, "tokenize", m, None, None, t, None, NoOptions) :
        m \in {"m1", "gpt-4"}, t \in {"", "a b", " ab  c ", "abc"}}
    \cup {Body(None, "chat", "m1", "msgs", None, None, None, NoOptions),
          Body(None, "embeddings", "m1", None, "in", None, None, NoOptions),
          Body(None, "models", None, None, None, None, None, NoOptions)}

\* proxy_llm_request(provider, body['type'], body, api_key) up to its request
adapter_call(provider, body, api_key, tiktoken, native) ==
    /\ LET call == proxy_llm_request(provider, body.type, body, api_key)
           result == IF call.does = "local"
                     THEN tokenize(provider, body, tiktoken, native)
                     ELSE NoTokens
       IN adp' = [called |-> TRUE, provider |-> provider, body |-> body,
                  api_key |-> api_key, tiktoken |-> tiktoken,
                  does |-> IF result.raised THEN "raise" ELSE call.does,
                  upstream |-> call.upstream, result |-> result]
    /\ UNCHANGED <<now, rate_limit_map, last, watch, concVars, httpVars, out, box, wrp, quota>>

---------------------------------------------------------------------------
(* The wrapper script's call of the submitted function                     *)

\* the most parameters a submitted function declares
MaxParams == 3

ParamNames == {"a", "b", "c"}

\* the keys of an input mapping: parameter names and one other key
InputKeys == ParamNames \cup {"x"}

InputValues == {"v1", "v2"}

\* what a parameter holds when the call supplies no argument for it
Default == "default"

\* the parameter lists extract_function_info returns (lines 709-716): the names
\* of node.args.args in declaration order
ParamLists ==
    {ps \in UNION {[1..n -> ParamNames] : n \in 0..MaxParams} :
        \A i, j \in DOMAIN ps : i # j => ps[i] # ps[j]}

\* the decoded input: a keyed mapping, or any other JSON value
Input(dict, map, scalar) == [dict |-> dict, map |-> map, scalar |-> scalar]

Inputs ==
    {Input(TRUE, m, None) : m \in UNION {[S -> InputValues] : S \in SUBSET InputKeys}}
    \cup {Input(FALSE, [k \in {} |-> "v1"], "v1")}

RECURSIVE positional(_, _)
\* lines 754-759: args.append(input_data[param]) for each param, in declaration
\* order, that the mapping holds
positional(params, map) ==
    IF params = <<>> THEN <<>>
    ELSE IF Head(params) \in DOMAIN map
    THEN <<map[Head(params)]>> \o positional(Tail(params), map)
    ELSE positional(Tail(params), map)

\* lines 748-762: the args and kwargs the wrapper builds; every key that went to
\* args was popped from kwargs
arguments(params, input) ==
    LET Names == {params[i] : i \in DOMAIN params}
        named == Names \cap DOMAIN input.map
    IN IF input.dict
       THEN [args |-> positional(params, input.map),
             kwargs |-> (DOMAIN input.map \cap Names) \ named]
       ELSE [args |-> <<input.scalar>>, kwargs |-> {}]

\* func(*args, **kwargs) (line 766): the i-th positional argument goes to the
\* i-th declared parameter, a keyword argument to the parameter of its name;
\* more positional arguments than parameters is a TypeError
call_function(params, input) ==
    LET a == arguments(params, input)
    IN [raised |-> Len(a.args) > Len(params),
        received |-> [i \in DOMAIN params |->
                        IF i <= Len(a.args) THEN a.args[i]
                        ELSE IF params[i] \in a.kwargs THEN input.map[params[i]]
                        ELSE Default]]

NoWrapperCall ==
    [called |-> FALSE, params |-> <<>>, input |-> Input(FALSE, [k \in {} |-> "v1"], None),
     raised |-> FALSE, received |-> <<>>]

\* the wrapper of generate_wrapper_code run for a function and an input
wrapper_call(params, input) ==
    /\ ~wrp.called
    /\ LET c == call_function(params, input)
       IN wrp' = [called |-> TRUE, params |-> params, input |-> input,
                  raised |-> c.raised, received |-> c.received]
    /\ UNCHANGED <<now, rate_limit_map, last, watch, concVars, httpVars, out, adp, box, quota>>

---------------------------------------------------------------------------
(* One /execute call, step by step                                         *)

\* how long the driver of a request may run: code that sleeps runs past the
\* timeout, other code for any time
Durations(r) ==
    IF r.body.json # "object" \/ ~Truthy(r.body.code) \/ ~has_function(r.body.code)
       \/ r.body.code = "not a string"
    THEN {0}
    ELSE IF r.body.code = "sleeps"
    THEN ((SANDBOX_TIMEOUT + 1) .. MaxDuration) \cup {Forever}
    ELSE (0 .. MaxDuration) \cup {Forever}

\* the result of a driver that ended by itself
ended(code) == IF code = "sleeps" THEN Driver(0, "json", "", "") ELSE driver(code)

\* execute up to subprocess.run (lines 787-838): a call that gets there has
\* written tool_code.py and wrapper.py and started the driver; any other call is
\* answered at once
exec_begin(r, d) ==
    /\ box.phase = "Idle"
    /\ r.route = "execute"
    /\ LET gate == jwt_required(cfg, r, now)
           run == execute_handler(r)
           entered == Effect(TRUE, gate.user_id, None, FALSE, NoLookup, NoUpstream,
                             NoReply)
       IN IF gate.pass /\ run.sandbox.spawned
          THEN /\ req' = r
               /\ resp' = resp
               /\ eff' = [entered EXCEPT !.sandbox =
                             [run.sandbox EXCEPT !.removed = FALSE, !.driver = NoDriver]]
               /\ box' = [phase |-> "Executing", duration |-> d, elapsed |-> 0,
                          killed |-> FALSE]
          ELSE /\ req' = r
               /\ resp' = IF gate.pass THEN run.resp ELSE gate.resp
               /\ eff' = IF gate.pass THEN [entered EXCEPT !.sandbox = run.sandbox]
                                      ELSE NoEffect
               /\ box' = [NoBox EXCEPT !.phase = "Done"]
    /\ UNCHANGED <<now, rate_limit_map, last, watch, cfg, concVars, out, adp, wrp, quota>>

\* a second passes while subprocess.run waits for the driver
driver_tick ==
    /\ box.phase = "Executing"
    /\ box.elapsed < box.duration
    /\ box.elapsed < MaxDuration
    /\ ~deadline(box.elapsed)
    /\ box' = [box EXCEPT !.elapsed = @ + 1]
    /\ UNCHANGED <<now, rate_limit_map, last, watch, cfg, concVars, out, adp, wrp, quota,
                   req, resp, eff>>

\* the rest of execute after the driver ended or was killed (lines 840-884)
exec_return(d, killed) ==
    LET verdict == classify(d)
    IN /\ resp' = [Response(200, IF d.timeout THEN ExecutionTimeout ELSE verdict.error,
                            None)
                     EXCEPT !.output = IF d.timeout THEN "" ELSE verdict.output,
                            !.success = IF d.timeout THEN FALSE ELSE verdict.success]
       /\ eff' = [eff EXCEPT !.sandbox.removed = TRUE, !.sandbox.driver = d]
       /\ box' = [box EXCEPT !.phase = "Done", !.killed = killed]
       /\ UNCHANGED <<now, rate_limit_map, last, watch, cfg, concVars, out, adp, wrp, quota, req>>

\* the driver ends by itself and subprocess.run returns its result
driver_exit ==
    /\ box.phase = "Executing"
    /\ box.elapsed = box.duration
    /\ exec_return(ended(req.body.code), FALSE)

\* the timeout passes: subprocess.run kills the driver, waits for it and raises
\* TimeoutExpired
driver_timeout ==
    /\ box.phase = "Executing"
    /\ deadline(box.elapsed)
    /\ exec_return(TimedOut, TRUE)

---------------------------------------------------------------------------
(* The specifications                                                      *)

NoCall == [id |-> None, admitted |-> FALSE, branch |-> None, prev |-> NoEntry, at |-> 0]

WatchOff == [on |-> FALSE, start |-> 0, pre |-> 0, post |-> 0, admitted |-> 0]

InitRL ==
    /\ now = 0
    /\ rate_limit_map = <<>>
    /\ last = NoCall
    /\ watch = WatchOff
    /\ ConcIdle
    /\ HttpIdle
    /\ out = NoOut
    /\ adp = NoAdapterCall
    /\ box = NoBox
    /\ wrp = NoWrapperCall
    /\ quota = 0

NextRL ==
    \/ \E identifier \in Identifiers : RateLimitCall(identifier)
    \/ Tick(MaxTime)

SpecRL == InitRL /\ [][NextRL]_vars

\* the clock values SpecBurst can reach
RECURSIVE ClockValues(_, _)
ClockValues(seen, limit) ==
    LET more == {t + d : t \in seen, d \in TickSteps} \cap (0..limit)
    IN IF more \subseteq seen THEN seen ELSE ClockValues(seen \cup more, limit)

InitBurst ==
    /\ now = 0
    /\ rate_limit_map = <<>>
    /\ last = NoCall
    /\ \E s \in ClockValues({0}, MaxBurstTime) :
          watch = [on |-> TRUE, start |-> s, pre |-> 0, post |-> 0, admitted |-> 0]
    /\ ConcIdle
    /\ HttpIdle
    /\ out = NoOut
    /\ adp = NoAdapterCall
    /\ box = NoBox
    /\ wrp = NoWrapperCall
    /\ quota = 0

NextBurst ==
    \/ RateLimitCall("u1")
    \/ Tick(MaxBurstTime)

SpecBurst == InitBurst /\ [][NextBurst]_vars

Objects == Threads \cup {"old"}

\* The clock stands still, so every call of a run is made at the same instant and
\* belongs to one window. The run starts from the empty map, or from a map whose
\* entry has its window passed (opened at time 0, read at 61), or from the state
\* that c sequential calls of this window leave, for c next to the limit.
InitConc ==
    /\ rate_limit_map = <<>>
    /\ last = NoCall
    /\ watch = WatchOff
    /\ thr = [t \in Threads |-> Idle]
    /\ HttpIdle
    /\ out = NoOut
    /\ adp = NoAdapterCall
    /\ box = NoBox
    /\ wrp = NoWrapperCall
    /\ quota = 0
    /\ \/ /\ now = 0
          /\ cmap = None
          /\ cobj = [o \in Objects |-> NoEntry]
          /\ cstat = [started |-> 0, admitted |-> 0, writes |-> 0]
       \/ /\ now = window_seconds + 1
          /\ cmap = "old"
          /\ cobj = [o \in Objects |->
                        IF o = "old" THEN [count |-> RATE_LIMIT + 1, last_reset |-> 0]
                        ELSE NoEntry]
          /\ cstat = [started |-> 0, admitted |-> 0, writes |-> 0]
       \/ \E c \in {RATE_LIMIT - 1, RATE_LIMIT} :
             /\ now = 0
             /\ cmap = "old"
             /\ cobj = [o \in Objects |->
                           IF o = "old" THEN [count |-> c, last_reset |-> 0]
                           ELSE NoEntry]
             /\ cstat = [started |-> 0, admitted |-> c, writes |-> c]

NextConc ==
    \E t \in Threads :
        \/ CStart(t)
        \/ CCreate(t)
        \/ CLoad(t)
        \/ CWindow(t)
        \/ CResetCount(t)
        \/ CResetTime(t)
        \/ CReadCount(t)
        \/ CWriteCount(t)
        \/ CStore(t)
        \/ CCompare(t)

SpecConc == InitConc /\ [][NextConc]_vars

\* The gateway after startup, for every configuration. The RateWindow map is
\* empty, or holds one identifier that has used up the window opened at time 0.
Init ==
    /\ now = 0
    /\ \/ rate_limit_map = <<>>
       \/ \E id \in {"u1", "u2", "ip1", "f1"} :
             rate_limit_map = (id :> [count |-> RATE_LIMIT, last_reset |-> 0])
    /\ last = NoCall
    /\ watch = WatchOff
    /\ ConcIdle
    /\ cfg \in Configs
    /\ req = NoRequest
    /\ resp = NoResponse
    /\ eff = NoEffect
    /\ out = NoOut
    /\ adp = NoAdapterCall
    /\ box = NoBox
    /\ wrp = NoWrapperCall
    /\ quota = 0

Next ==
    \/ \E r \in Pending(LlmRequests), reply \in Replies \cup {NoReply} :
          llm_proxy(r, reply)
    \/ \E r \in Pending(ExecuteRequests) : execute(r)
    \/ \E r \in Pending(EndpointRequests), reply \in Replies \cup {NoReply} :
          proxy_endpoint(r, reply)
    \/ Tick(MaxTime)

Spec == Init /\ [][Next]_vars

\* the two implementations of /execute handling one request: the gateway's and
\* the script's
NextSandbox ==
    \/ \E r \in Pending(ExecuteRequests) : execute(r)
    \/ \E r \in Pending(ScriptRequests), pycache \in BOOLEAN :
          execute_script(r, pycache)
    \/ Tick(MaxTime)

SpecSandbox == Init /\ [][NextSandbox]_vars

\* the requests of SpecExec
ExecRequests ==
    {Request("execute", "POST", "execute", h, None, b) :
        h \in {NoHeader, Bearer(UserToken("s1", FALSE, 0, "u1"))}, b \in ExecuteBodies}

InitExec ==
    /\ now = 0
    /\ rate_limit_map = <<>>
    /\ last = NoCall
    /\ watch = WatchOff
    /\ ConcIdle
    /\ cfg \in Configs
    /\ req = NoRequest
    /\ resp = NoResponse
    /\ eff = NoEffect
    /\ out = NoOut
    /\ adp = NoAdapterCall
    /\ box = NoBox
    /\ wrp = NoWrapperCall
    /\ quota = 0

NextExec ==
    \/ \E r \in ExecRequests : \E d \in Durations(r) : exec_begin(r, d)
    \/ driver_tick
    \/ driver_exit
    \/ driver_timeout

\* time passes, a driver that ends is reaped and the timeout of subprocess.run
\* fires
SpecExec ==
    /\ InitExec
    /\ [][NextExec]_vars
    /\ WF_vars(driver_tick)
    /\ WF_vars(driver_exit)
    /\ WF_vars(driver_timeout)

InitWrapper ==
    /\ now = 0
    /\ rate_limit_map = <<>>
    /\ last = NoCall
    /\ watch = WatchOff
    /\ ConcIdle
    /\ HttpIdle
    /\ out = NoOut
    /\ adp = NoAdapterCall
    /\ box = NoBox
    /\ wrp = NoWrapperCall
    /\ quota = 0

NextWrapper == \E params \in ParamLists, input \in Inputs : wrapper_call(params, input)

SpecWrapper == InitWrapper /\ [][NextWrapper]_vars

\* the passthrough routes behind the router handling one request
NextProxy ==
    \/ \E r \in Pending(PassthroughRequests), reply \in Replies \cup {NoReply} :
          passthrough(r, reply)
    \/ Tick(MaxTime)

SpecProxy == Init /\ [][NextProxy]_vars

InitQuota ==
    /\ now = 0
    /\ rate_limit_map = <<>>
    /\ last = NoCall
    /\ watch = WatchOff
    /\ ConcIdle
    /\ cfg \in {Startup(FALSE, None, FALSE), Startup(TRUE, "s1", TRUE)}
    /\ req = NoRequest
    /\ resp = NoResponse
    /\ eff = NoEffect
    /\ out = NoOut
    /\ adp = NoAdapterCall
    /\ box = NoBox
    /\ wrp = NoWrapperCall
    /\ quota = 0

NextQuota ==
    \/ \E r \in QuotaRequests(cfg), reply \in QuotaReplies : llm_again(r, reply)
    \/ Tick(MaxTime)

SpecQuota == InitQuota /\ [][NextQuota]_vars

\* get_auth_headers called during requests, for every configuration
InitHdr ==
    /\ now = 0
    /\ rate_limit_map = <<>>
    /\ last = NoCall
    /\ watch = WatchOff
    /\ ConcIdle
    /\ cfg \in Configs
    /\ req = NoRequest
    /\ resp = NoResponse
    /\ eff = NoEffect
    /\ out = NoOut
    /\ adp = NoAdapterCall
    /\ box = NoBox
    /\ wrp = NoWrapperCall
    /\ quota = 0

NextHdr ==
    \/ \E inbound \in Headers, user_id \in UserIds : get_auth_headers(inbound, user_id)
    \/ Tick(MaxTime)

SpecHdr == InitHdr /\ [][NextHdr]_vars

\* proxy_llm_request called with every provider, with and without a key
InitAdapter ==
    /\ now = 0
    /\ rate_limit_map = <<>>
    /\ last = NoCall
    /\ watch = WatchOff
    /\ ConcIdle
    /\ HttpIdle
    /\ out = NoOut
    /\ adp = NoAdapterCall
    /\ box = NoBox
    /\ wrp = NoWrapperCall
    /\ quota = 0

NextAdapter ==
    \E provider \in Providers, body \in AdapterBodies, api_key \in {None, "k1"},
       tiktoken \in BOOLEAN, native \in 0..MaxNative :
        adapter_call(provider, body, api_key, tiktoken, native)

SpecAdapter == InitAdapter /\ [][NextAdapter]_vars

---------------------------------------------------------------------------
\* C1: sequentially, rate_limit(X) returns true iff X's updated count is <= 60, so
\* the first 60 calls of a window are admitted and the 61st and later are rejected
C1_AdmitIffWithinLimit ==
    last.id # None =>
        (last.admitted <=> rate_limit_map[last.id].count <= 60)

C1_Witness ==
    /\ last.id = "u1"
    /\ ~last.admitted
    /\ last.prev.count = 60
    /\ rate_limit_map["u1"].count = 61

\* C2 as stated: a call for an identifier with an entry, arriving with
\* now - window_start >= 60 (exactly 60 included), resets the window and is admitted
C2_ResetAtOrAfter60 ==
    (last.id # None /\ last.branch # "new" /\ last.at - last.prev.last_reset >= 60) =>
        /\ rate_limit_map[last.id] = [count |-> 1, last_reset |-> last.at]
        /\ last.admitted

\* C2 amended: the window is reset only when now - window_start > 60; a call at
\* exactly 60 s (or earlier) is counted in the old window, whose start is kept
C2_ResetAfter60 ==
    (last.id # None /\ last.branch # "new") =>
        IF last.at - last.prev.last_reset > 60
        THEN /\ rate_limit_map[last.id] = [count |-> 1, last_reset |-> last.at]
             /\ last.admitted
        ELSE /\ rate_limit_map[last.id] =
                    [count |-> last.prev.count + 1, last_reset |-> last.prev.last_reset]
             /\ last.admitted <=> (last.prev.count + 1 <= 60)

C2_Witness ==
    /\ last.id = "u1"
    /\ last.prev.count = 61
    /\ last.at - last.prev.last_reset = 61
    /\ rate_limit_map["u1"].count = 1
    /\ last.admitted

\* C4 as stated: no interval of 60 s holds more than 120 admissions, and 60 calls
\* before a window boundary followed by 60 calls after it, all inside one interval of
\* 60 s, are all admitted (120)
C4_Burst120 ==
    /\ watch.admitted <= 120
    /\ (watch.pre = 60 /\ watch.post = 60) => watch.admitted = 120

\* C4 amended: no interval of 60 s holds more than 119 admissions: the call that
\* opened the earlier window lies more than 60 s before the next window's first call
C4_Burst119 == watch.admitted <= 119

C4_Witness ==
    /\ watch.admitted = 119
    /\ watch.post = 60
    /\ rate_limit_map["u1"].count = 60

\* C3: with rate_limit interleaved, more than 60 calls of one window can be
\* admitted, and only because updates of the counter were lost: whenever more
\* than 60 calls of the window were admitted, the counter is below the number of
\* updates made to it
C3_OverAdmissionByLostUpdate ==
    cstat.admitted > 60 => cobj[cmap].count < cstat.writes

C3_Witness ==
    /\ cstat.admitted > 60
    /\ \A t \in Threads : thr[t].pc = "idle"

\* C5: with authentication enabled, a request to /llm, /execute or a passthrough
\* route whose Authorization header is missing or no bearer credential, or whose
\* token fails verification or is expired, is answered 401 with the message of its
\* kind and the handler does not run: rate_limit_map is unchanged and there is no
\* key-store lookup, upstream request, sandbox run or forwarded request. With
\* authentication disabled the handler runs for every request.
C5_AuthGate ==
    [][(req = NoRequest /\ req' # NoRequest) =>
          LET h == req'.auth
              kind == IF h.kind # "bearer"
                      THEN "Missing or invalid Authorization header"
                      ELSE IF ~h.token.jwt \/ h.token.key # cfg.JWT_SECRET
                      THEN "Invalid token"
                      ELSE IF h.token.has_exp /\ h.token.exp <= now
                      THEN "Token expired"
                      ELSE None
          IN IF ~cfg.ENABLE_AUTH THEN eff'.handler
             ELSE kind # None =>
                     /\ resp'.status = 401
                     /\ resp'.message = kind
                     /\ eff' = NoEffect
                     /\ rate_limit_map' = rate_limit_map
                     /\ last' = last]_vars

\* an expired token of the configured secret was refused on /llm while the map held
\* an entry
C5_Witness ==
    /\ cfg.ENABLE_AUTH
    /\ req.route = "llm"
    /\ req.auth.kind = "bearer"
    /\ req.auth.token.key = cfg.JWT_SECRET
    /\ req.auth.token.has_exp
    /\ req.auth.token.exp <= now
    /\ resp.status = 401
    /\ resp.message = "Token expired"
    /\ DOMAIN rate_limit_map # {}
    /\ ~eff.handler

\* C6: with authentication enabled and no signing secret configured, no request
\* reaches a protected handler, and a request with a bearer credential is answered
\* 500.
C6_MissingSecretRefuses ==
    (cfg.ENABLE_AUTH /\ cfg.configured = None /\ req # NoRequest) =>
        /\ ~eff.handler
        /\ req.auth.kind = "bearer" => resp.status = 500

\* C7: the user id /llm uses for the rate-limit identifier and the key-store lookup
\* is the user_id claim of a verified service token that carries one, and the
\* subject of every other verified token.
C7_EffectiveIdentity ==
    (cfg.ENABLE_AUTH /\ req.route = "llm" /\ eff.handler) =>
        LET tk == req.auth.token
            effective == IF tk.is_service /\ tk.user_id # None THEN tk.user_id
                         ELSE tk.sub
        IN /\ eff.user_id = effective
           /\ Truthy(effective) => eff.rlid = effective
           /\ eff.lookup.called => eff.lookup.user_id = effective

C9_ExplicitKeyShortCircuits ==
    (/\ req.route = "llm"
     /\ eff.handler
     /\ eff.admitted
     /\ req.body.json = "object"
     /\ req.body.api_key = "k1"
     /\ req.body.type \in {"chat", "embeddings", "models"}
     /\ validate_llm_input(Lower(req.body.provider), req.body) = None
     /\ Lower(req.body.provider) \notin LocalProviders) =>
        /\ eff.upstream.sent
        /\ eff.upstream.key = "k1"
        /\ ~eff.lookup.called

C11_MissingCredentialIff ==
    (/\ req.route = "llm"
     /\ cfg.ENABLE_AUTH
     /\ eff.handler
     /\ eff.admitted
     /\ Truthy(eff.user_id)
     /\ req.body.json = "object"
     /\ req.body.type \in {"chat", "embeddings", "models"}
     /\ validate_llm_input(Lower(req.body.provider), req.body) = None) =>
        LET provider == Lower(req.body.provider)
            rows == {row \in KeyStoreRows : /\ cfg.supabase_client
                                            /\ row.user_id = eff.user_id
                                            /\ row.provider = provider}
            needs == provider \notin LocalProviders /\ req.body.api_key = None
        IN /\ (resp.status = 400 /\ resp.error = "No API key returned")
                 <=> (needs /\ rows = {})
           /\ (needs /\ rows # {}) =>
                 /\ eff.upstream.sent
                 /\ \E row \in rows : eff.upstream.key = row.api_key
           /\ provider \in LocalProviders => ~eff.lookup.called

\* C12: a valid /llm call for a provider that needs a key, from a caller without a
\* user id and without an api_key in the body, is answered 400 "user_id required
\* but not found in request"; the key store is not queried and no request goes to
\* the provider.
C12_MissingIdentityBeforeLookup ==
    (/\ req.route = "llm"
     /\ eff.handler
     /\ eff.admitted
     /\ (~cfg.ENABLE_AUTH \/ ~Truthy(req.auth.token.sub))
     /\ req.body.json = "object"
     /\ req.body.api_key = None
     /\ validate_llm_input(Lower(req.body.provider), req.body) = None
     /\ Lower(req.body.provider) \notin LocalProviders) =>
        /\ resp.status = 400
        /\ resp.error = "user_id required but not found in request"
        /\ ~eff.lookup.called
        /\ ~eff.lookup.queried
        /\ ~eff.upstream.sent

\* a service token without subject asked for an openai chat while the key store was
\* connected
C12_Witness ==
    /\ req.route = "llm"
    /\ cfg.ENABLE_AUTH
    /\ cfg.supabase_client
    /\ eff.handler
    /\ eff.admitted
    /\ req.auth.token.is_service
    /\ req.auth.token.sub = None
    /\ req.body.provider = "openai"
    /\ req.body.type = "chat"
    /\ req.body.api_key = None
    /\ resp.status = 400
    /\ ~eff.lookup.called

\* the characters of key occur in text, one after the other
Contains(text, key) ==
    \E i \in 1..(Len(text) - Len(key) + 1) : SubSeq(text, i, i + Len(key) - 1) = key

\* C13: no log record written while a request is handled contains a key of the key
\* store unmasked, at any level.
C13_KeysMasked ==
    \A rec \in eff.lookup.logs :
        \A row \in KeyStoreRows : ~Contains(rec.text, KeyChars(row.api_key))

\* C14: a tokenize operation that proxy_llm_request handles, for any provider, model
\* and text, returns status 200 with tokens and their count and makes no request;
\* for every provider but openai, and for openai when its tokenizer cannot be used,
\* the tokens are the whitespace split of the text.
C14_TokenizeLocal ==
    (/\ adp.called
     /\ adp.body.type = "tokenize"
     /\ (adp.api_key # None \/ adp.provider \in LocalProviders)) =>
        /\ adp.does = "local"
        /\ adp.result.status = 200
        /\ adp.result.token_count = Len(adp.result.tokens)
        /\ ~adp.upstream.sent
        /\ (adp.provider # "openai" \/ ~adp.tiktoken
            \/ adp.body.model \notin TiktokenModels) =>
              adp.result.tokens = split(TextChars(adp.body.text))

\* C15: a chat request whose upstream answers with a status below 400 is answered
\* with that status and a content string, whatever the shape of the upstream body,
\* and never with an error of the extraction.
C15_ChatNormalized ==
    (/\ req.route = "llm"
     /\ req.body.type = "chat"
     /\ eff.upstream.sent
     /\ eff.reply.answered
     /\ eff.reply.status < 400) =>
        /\ resp.status = eff.reply.status
        /\ resp.content # None
        /\ resp.error = None

\* C16: an upstream answer with status s >= 400 is answered with status s and an
\* error field, whatever the shape of the upstream body.
C16_UpstreamErrorMirrored ==
    (/\ req.route = "llm"
     /\ eff.upstream.sent
     /\ eff.reply.answered
     /\ eff.reply.status >= 400) =>
        /\ resp.status = eff.reply.status
        /\ resp.error # None

\* C17: an admitted /llm request whose body is absent or no JSON object, or lacks a
\* valid provider or type, or lacks the model, messages, input or text its type
\* needs, is answered 400 with an error field, with no key-store lookup and no
\* upstream request.
C17_InvalidRequest400 ==
    (/\ req.route = "llm"
     /\ eff.handler
     /\ eff.admitted
     /\ LET b == req.body
        IN \/ b.json # "object"
           \/ Lower(b.provider) \notin Providers
           \/ b.type \notin {"chat", "embeddings", "models", "tokenize"}
           \/ (b.type \in {"chat", "embeddings", "tokenize"} /\ b.model = None)
           \/ (b.type = "chat" /\ b.messages = None)
           \/ (b.type = "embeddings" /\ b.input = None)
           \/ (b.type = "tokenize" /\ b.text = None)) =>
        /\ resp.status = 400
        /\ resp.error # None
        /\ ~eff.lookup.called
        /\ ~eff.upstream.sent

\* C18: after an /execute call that created a temporary directory, whatever the
\* code did (also when it wrote further files there), the directory is gone and
\* the call's own response was delivered.
C18_SandboxCleanup ==
    (req.route \in {"execute", "script execute"} /\ eff.sandbox.tempdir) =>
        /\ eff.sandbox.removed
        /\ resp.status = 200

\* C19: the response of an /execute call whose driver ran to its end has success
\* true exactly when the driver exited with code zero, wrote nothing to stderr and
\* its stdout is no JSON object with an error key.
C19_SuccessClassification ==
    (/\ req.route = "execute"
     /\ eff.sandbox.spawned
     /\ ~eff.sandbox.driver.timeout) =>
        (resp.success <=>
            /\ eff.sandbox.driver.returncode = 0
            /\ eff.sandbox.driver.stderr = ""
            /\ eff.sandbox.driver.stdout # "error object")

\* C20: when the submitted function raises an exception, with any message, the
\* response has success false, empty output and the message as error.
C20_RaisingCallable ==
    (/\ req.route = "execute"
     /\ eff.sandbox.spawned
     /\ req.body.code \in {"raises", "raises empty"}) =>
        /\ resp.success = FALSE
        /\ resp.output = ""
        /\ resp.error = ExceptionMessage(req.body.code)


\* C21: an /execute call whose code defines no function, or does not parse, is
\* answered with the NoCallableFound error, success false and empty output, and
\* starts no driver process.
C21_NoCallableFoundTerminal ==
    (/\ req.route = "execute"
     /\ eff.handler
     /\ req.body.code \in {"no function", "syntax error"}) =>
        /\ resp.status = 200
        /\ resp.error = NoCallableFound
        /\ resp.success = FALSE
        /\ resp.output = ""
        /\ ~eff.sandbox.spawned
        /\ eff.sandbox.driver = NoDriver

C21_Witness ==
    /\ req.route = "execute"
    /\ eff.handler
    /\ req.body.code = "syntax error"
    /\ resp.error = NoCallableFound
    /\ eff.sandbox.tempdir
    /\ ~eff.sandbox.spawned

\* C22: a call whose driver is running always gets to its end; the driver never
\* runs longer than the timeout, and a call whose driver's code runs longer than
\* that is answered with the ExecutionTimeout error, empty output and success
\* false after the driver was killed.
C22_SandboxTimeout ==
    /\ [](box.phase = "Executing" => box.elapsed <= SANDBOX_TIMEOUT)
    /\ []((box.phase = "Done" /\ box.duration > SANDBOX_TIMEOUT) =>
            /\ box.killed
            /\ resp.status = 200
            /\ resp.error = ExecutionTimeout
            /\ resp.output = ""
            /\ resp.success = FALSE
            /\ eff.sandbox.removed)
    /\ (box.phase = "Executing" ~> box.phase = "Done")

C22_Witness ==
    /\ box.phase = "Done"
    /\ box.duration = Forever
    /\ box.elapsed = SANDBOX_TIMEOUT
    /\ box.killed
    /\ resp.error = ExecutionTimeout

\* C23: when the input is a keyed mapping, every declared parameter whose name
\* is a key of the mapping receives the value under that key, and every other
\* declared parameter receives no argument.
C23_BindingByName ==
    (wrp.called /\ wrp.input.dict) =>
        /\ ~wrp.raised
        /\ \A i \in DOMAIN wrp.params :
              wrp.received[i] = IF wrp.params[i] \in DOMAIN wrp.input.map
                                THEN wrp.input.map[wrp.params[i]]
                                ELSE Default

\* C24: handling a request to /execute makes no rate_limit call, leaves
\* rate_limit_map as it was and never answers 429, also when the map holds a full
\* window for the caller.
C24_ExecuteNotRateLimited ==
    [][(req = NoRequest /\ req'.route = "execute") =>
          /\ rate_limit_map' = rate_limit_map
          /\ last' = last
          /\ eff'.rlid = None
          /\ resp'.status # 429]_vars

\* an identified caller whose window on /llm is full had code executed
C24_Witness ==
    /\ req.route = "execute"
    /\ eff.handler
    /\ eff.user_id = "u1"
    /\ "u1" \in DOMAIN rate_limit_map
    /\ rate_limit_map["u1"].count >= RATE_LIMIT
    /\ ~WindowPassed(now, rate_limit_map["u1"])
    /\ eff.sandbox.spawned
    /\ resp.status = 200

\* C25: a request of any method and path to /ollama/<path>, /lmstudio/<path> or
\* /v1/<path> that authentication lets in is forwarded to its backend
\* (<ollama base>/<path>, <lmstudio base>/<path>, <lmstudio base>/v1/<path>) with
\* the same method and body and without the Host header; the backend's status is
\* the response's status, and 502 is answered when the backend cannot be reached.
C25_Passthrough ==
    [][(/\ req = NoRequest
        /\ req'.route \in {"ollama", "lmstudio", "v1"}
        /\ jwt_required(cfg, req', now).pass) =>
          /\ eff'.forward.sent
          /\ eff'.forward.base = IF req'.route = "ollama" THEN "OLLAMA_BASE_URL"
                                 ELSE "LMSTUDIO_BASE_URL"
          /\ eff'.forward.path = IF req'.route = "v1" THEN <<"v1", req'.path>>
                                 ELSE <<req'.path>>
          /\ eff'.forward.method = req'.method
          /\ eff'.forward.body = req'.body
          /\ ~eff'.forward.host
          /\ resp'.status = IF eff'.reply.answered THEN eff'.reply.status ELSE 502]_vars

\* C26: the rate_limit call of an /llm request is made for the caller's identity
\* when the request has one, and otherwise for the network address the request
\* came from, whatever headers the request carries.
C26_RateLimitKeying ==
    (req.route = "llm" /\ eff.handler) =>
        eff.rlid = IF Truthy(eff.user_id) THEN eff.user_id ELSE req.remote_addr

\* C27: an /llm call makes at most one request to the provider, one exactly when
\* it gets as far as the provider's endpoint, whatever the provider answers; a
\* call refused by authentication, by the rate limit, for its body or for its
\* credential makes none.
C27_SingleAttempt ==
    (req.route = "llm") =>
        LET provider == Lower(IF req.body.provider = None THEN "" ELSE req.body.provider)
            rejected ==
                \/ ~eff.handler
                \/ ~eff.admitted
                \/ req.body.json # "object"
                \/ validate_llm_input(provider, req.body) # None
                \/ ~resolve_credential(cfg, provider, req.body, eff.user_id).proceed
        IN /\ eff.attempts <= 1
           /\ eff.attempts = 1 <=> eff.upstream.sent
           /\ rejected => (eff.attempts = 0 /\ ~eff.upstream.sent)

\* the provider could not be reached, or answered 500, and was asked once
C27_Witness ==
    /\ req.route = "llm"
    /\ eff.upstream.sent
    /\ ~eff.reply.answered \/ eff.reply.status >= 500
    /\ eff.attempts = 1
    /\ resp.status = 500

\* C28: a rejected rate_limit call adds one to the identifier's count and leaves
\* its window start as it was; a call of an identifier that is over the limit,
\* made after the window that began at its window start has passed, is admitted
\* and starts a new window with count 1.
C28_NoPermanentLockout ==
    /\ (last.id # None /\ ~last.admitted) =>
          rate_limit_map[last.id] =
              [count |-> last.prev.count + 1, last_reset |-> last.prev.last_reset]
    /\ (/\ last.id # None
        /\ last.branch # "new"
        /\ last.prev.count >= RATE_LIMIT
        /\ last.at - last.prev.last_reset > window_seconds) =>
          /\ last.admitted
          /\ rate_limit_map[last.id] = [count |-> 1, last_reset |-> last.at]

\* an identifier rejected twice in its window was admitted after the window
C28_Witness ==
    /\ last.id = "u1"
    /\ last.prev.count = RATE_LIMIT + 2
    /\ last.prev.last_reset = 0
    /\ last.at = window_seconds + 1
    /\ last.admitted
    /\ rate_limit_map["u1"] = [count |-> 1, last_reset |-> window_seconds + 1]

\* C29: a rate_limit call for an identifier leaves the entry of every other
\* identifier as it was and removes no entry, and its result is the one it would
\* give if the map held the entry of its own identifier alone.
C29_PerIdentifierIsolation ==
    [][/\ DOMAIN rate_limit_map \subseteq DOMAIN rate_limit_map'
       /\ \A y \in DOMAIN rate_limit_map' :
             (y \notin DOMAIN rate_limit_map \/ rate_limit_map'[y] # rate_limit_map[y])
                => (last' # last /\ last'.id = y)
       /\ last' # last =>
             LET own == [y \in DOMAIN rate_limit_map \cap {last'.id} |->
                            rate_limit_map[y]]
             IN /\ last'.admitted = rate_limit(own, last'.id, now)
                /\ rate_limit_map'[last'.id] =
                      rate_limit_update(own, last'.id, now)[last'.id]]_vars

\* one identifier was rejected while another's window held a single call
C29_Witness ==
    /\ last.id = "u1"
    /\ ~last.admitted
    /\ "ip1" \in DOMAIN rate_limit_map
    /\ rate_limit_map["ip1"].count = 1
    /\ rate_limit_map["u1"].count = RATE_LIMIT + 1

\* C30: an /llm call that gets past authentication is counted in its caller's
\* window before anything else, so the calls answered 400 are in the count: a
\* window never holds more than 60 of them, and a call made in a window whose
\* count has reached 60 is answered 429 without reaching a provider.
C30_QuotaBeforeValidation ==
    (req.route = "llm" /\ eff.handler) =>
        /\ last.id = eff.rlid
        /\ eff.rlid \in DOMAIN rate_limit_map
        /\ rate_limit_map[eff.rlid].count =
              IF last.branch = "incr" THEN last.prev.count + 1 ELSE 1
        /\ quota <= rate_limit_map[eff.rlid].count
        /\ quota <= RATE_LIMIT
        /\ (last.branch = "incr" /\ last.prev.count >= RATE_LIMIT) =>
              (resp.status = 429 /\ ~eff.upstream.sent)

\* after 60 calls answered 400 in one window, a valid call was answered 429
C30_Witness ==
    /\ quota = RATE_LIMIT
    /\ req.body = OllamaChat
    /\ last.branch = "incr"
    /\ last.prev.count = RATE_LIMIT
    /\ resp.status = 429

====
